---------------------------- MODULE Spec2Model ----------------------------
(***************************************************************************)
(* Model of the rebalancing back-test engine of src/src/utils.py:          *)
(* get_balance and the functions it calls (get_costs,                      *)
(* calculate_rebalance_cost, calculate_leverage_costs, get_net_balance,    *)
(* port_balance_calc, check_negative_balance).                             *)
(*                                                                         *)
(* Numbers.  Money is an integer number of cents (the code rounds every    *)
(* NAV and every net balance to 2 decimals); weights, growth factors and   *)
(* cost fractions are exact rationals [num, den]; IEEE nan / inf / -inf    *)
(* are explicit values.  The only float64 values that are not rounded by   *)
(* the code, those of the leverage-adjusted trajectory, are kept to the    *)
(* cent.  exp(cumsum(log(1 + r))) is the running product of the growth     *)
(* factors 1 + r.                                                          *)
(***************************************************************************)
EXTENDS Integers, Sequences, FiniteSets

(***************************************************************************)
(* Bounds of the model.                                                    *)
(***************************************************************************)
MaxRebalances == 2

(***************************************************************************)
(* Program constants.                                                      *)
(***************************************************************************)
RebCostDecimals == 6
DaysInYear == 360

(***************************************************************************)
(* Exact arithmetic.                                                       *)
(***************************************************************************)
Abs(n) == IF n < 0 THEN -n ELSE n

RECURSIVE GCD(_, _)
GCD(a, b) == IF b = 0 THEN a ELSE GCD(b, a % b)

\* Operator arguments are evaluated once, which is why intermediate values
\* are passed on as arguments below.
Lowest(n, d, g) ==
    IF d < 0 THEN [num |-> (-n) \div g, den |-> (-d) \div g]
    ELSE [num |-> n \div g, den |-> d \div g]

\* the rational n/d (d # 0) in lowest terms with a positive denominator
Rat(n, d) == Lowest(n, d, GCD(Abs(n), Abs(d)))

OverCommon(x, y, g) ==
    Rat(x.num * (y.den \div g) + y.num * (x.den \div g), x.den * (y.den \div g))

RAdd(x, y) == OverCommon(x, y, GCD(x.den, y.den))

RNeg(x) == [num |-> -x.num, den |-> x.den]

RSub(x, y) == RAdd(x, RNeg(y))

RAbs(x) == [num |-> Abs(x.num), den |-> x.den]

Product(a, b) == [num |-> a.num * b.num, den |-> a.den * b.den]

RMul(x, y) == Product(Rat(x.num, y.den), Rat(y.num, x.den))

RZero == [num |-> 0, den |-> 1]
ROne == [num |-> 1, den |-> 1]
RInt(n) == [num |-> n, den |-> 1]

RECURSIVE Pow10(_)
Pow10(k) == IF k = 0 THEN 1 ELSE 10 * Pow10(k - 1)

NextDigit(p, den) == <<10 * p[1] + (10 * p[2]) \div den, (10 * p[2]) % den>>

\* <<floor(x * 10^k), remainder>> for x >= 0, by long division
RECURSIVE ScaledFloor(_, _)
ScaledFloor(x, k) ==
    IF k = 0
    THEN <<x.num \div x.den, x.num % x.den>>
    ELSE NextDigit(ScaledFloor(x, k - 1), x.den)

HalfEven(p, den) ==
    IF 2 * p[2] > den \/ (2 * p[2] = den /\ p[1] % 2 = 1) THEN p[1] + 1 ELSE p[1]

\* x >= 0 rounded half-even to k decimals
RoundDecimals(x, k) == Rat(HalfEven(ScaledFloor(x, k), x.den), Pow10(k))

\* round-half-even of n/d (d > 0) to an integer: Python's round and numpy's
RoundHalfEven(x) == HalfEven(<<x.num \div x.den, x.num % x.den>>, x.den)

(***************************************************************************)
(* Values.  A money value is a number of cents, nan or -inf; a weight is a *)
(* rational, nan, inf or -inf; a cost fraction is a rational or inf.  A    *)
(* pandas Series of weights is a function from its index, a subset of      *)
(* Assets; a DataFrame of returns is a sequence (one entry per date) of    *)
(* functions from its columns to the growth factor 1 + r of that date.     *)
(***************************************************************************)
Assets == {"A", "B"}

Fin(c) == [kind |-> "fin", val |-> c]
NaN == [kind |-> "nan", val |-> 0]
NegInf == [kind |-> "-inf", val |-> 0]

W(n, d) == [kind |-> "fin", q |-> Rat(n, d)]
WNaN == [kind |-> "nan", q |-> RZero]
WInf == [kind |-> "inf", q |-> RZero]
WNegInf == [kind |-> "-inf", q |-> RZero]

Cost(x) == [kind |-> "fin", q |-> x]
CostInf == [kind |-> "inf", q |-> RZero]

EmptySeries == [a \in {} |-> WNaN]

RECURSIVE RSum(_, _)
RSum(f, S) ==
    IF S = {} THEN RZero
    ELSE LET a == CHOOSE b \in S : TRUE IN RAdd(f[a], RSum(f, S \ {a}))

RECURSIVE ISum(_, _)
ISum(f, S) ==
    IF S = {} THEN 0
    ELSE LET a == CHOOSE b \in S : TRUE IN f[a] + ISum(f, S \ {a})

\* Series.dropna()
dropna(series) ==
    [a \in {b \in DOMAIN series : series[b].kind # "nan"} |-> series[a]]

\* series[series != 0]
nonzero(series) ==
    [a \in {b \in DOMAIN series : ~(series[b].kind = "fin" /\ series[b].q.num = 0)}
        |-> series[a]]

\* one side of Series.align(other, fill_value=0): reindexed over the union of
\* the two indexes, and every missing or nan entry filled with 0
aligned(series, index) ==
    [a \in index |->
        IF a \in DOMAIN series /\ series[a].kind # "nan" THEN series[a] ELSE W(0, 1)]

(***************************************************************************)
(* check_negative_balance: at the first value <= 0, that value and every   *)
(* later one are set to 0 and False is returned; otherwise True.           *)
(***************************************************************************)
\* mutant: only the first value <= 0 is set to 0
zero_first_only(series, first_zero_or_negative) ==
    [k \in 1..Len(series) |-> IF k = first_zero_or_negative THEN 0 ELSE series[k]]

zero_from(series, first_zero_or_negative) ==
    [k \in 1..Len(series) |-> IF k >= first_zero_or_negative THEN 0 ELSE series[k]]

first_of(bad) == CHOOSE k \in bad : \A j \in bad : k <= j

check_negative_balance(series) ==
    IF \E k \in 1..Len(series) : series[k] <= 0
    THEN [series |-> zero_from(series,
                               first_of({k \in 1..Len(series) : series[k] <= 0})),
          result |-> FALSE]
    ELSE [series |-> series, result |-> TRUE]

(***************************************************************************)
(* get_net_balance: nan > 0 is False, so a nan balance gives 0.            *)
(***************************************************************************)
get_net_balance(balance, reb_cost) ==
    IF balance.kind = "fin" /\ balance.val > 0
    THEN IF reb_cost.kind = "inf"
         THEN NegInf
         ELSE Fin(RoundHalfEven(RMul(RInt(balance.val), RSub(ROne, reb_cost.q))))
    ELSE Fin(0)

(***************************************************************************)
(* calculate_rebalance_cost                                                *)
(***************************************************************************)
\* abs(current_portfolio - prev_portfolio) of the aligned series
abs_difference(cur, prev) ==
    [a \in DOMAIN cur |->
        IF cur[a].kind = "fin" /\ prev[a].kind = "fin"
        THEN [kind |-> "fin", q |-> RAbs(RSub(cur[a].q, prev[a].q))]
        ELSE WInf]

\* mutant: the previous portfolio is reindexed on the current one, so an
\* asset only the previous portfolio holds is lost
difference_on_current(current_portfolio, prev_portfolio) ==
    abs_difference(aligned(current_portfolio, DOMAIN current_portfolio),
                   aligned(prev_portfolio, DOMAIN current_portfolio))

weight_difference(current_portfolio, prev_portfolio) ==
    abs_difference(
        aligned(current_portfolio, DOMAIN current_portfolio \cup DOMAIN prev_portfolio),
        aligned(prev_portfolio, DOMAIN current_portfolio \cup DOMAIN prev_portfolio))

\* (weight_difference * transaction_cost).sum().round(6); inf * 0 is nan,
\* which sum() skips
cost_of(diff, transaction_cost) ==
    IF (\E a \in DOMAIN diff : diff[a].kind # "fin") /\ transaction_cost.num > 0
    THEN CostInf
    ELSE Cost(RoundDecimals(
                RSum([a \in DOMAIN diff |->
                        IF diff[a].kind = "fin"
                        THEN RMul(diff[a].q, transaction_cost) ELSE RZero],
                     DOMAIN diff),
                RebCostDecimals))

calculate_rebalance_cost(current_portfolio, prev_portfolio, transaction_cost) ==
    cost_of(weight_difference(current_portfolio, prev_portfolio), transaction_cost)

(***************************************************************************)
(* calculate_leverage_costs                                                *)
(***************************************************************************)
\* mutant: every weight counts as debt
total_exposure(portfolio_weights) ==
    RSum([a \in DOMAIN portfolio_weights |-> RAbs(portfolio_weights[a])],
         DOMAIN portfolio_weights)

\* abs(portfolio_weights[portfolio_weights < 0].sum())
total_debt(portfolio_weights) ==
    RAbs(RSum(portfolio_weights,
              {a \in DOMAIN portfolio_weights : portfolio_weights[a].num < 0}))

leverage_cost_of(annual_cost_of_debt, debt) ==
    IF annual_cost_of_debt.num > 0 /\ debt.num > 0
    THEN RMul(RMul(annual_cost_of_debt, Rat(1, DaysInYear)), debt)
    ELSE RZero

calculate_leverage_costs(annual_cost_of_debt, portfolio_weights) ==
    leverage_cost_of(annual_cost_of_debt,
                     total_debt([a \in DOMAIN portfolio_weights |->
                                    portfolio_weights[a].q]))

(***************************************************************************)
(* get_costs                                                               *)
(***************************************************************************)
get_costs(trans_cost, portfolio_weights, last_weights, annual_kd) ==
    [reb_cost |-> IF trans_cost.num <= 0
                  THEN Cost(RZero)
                  ELSE calculate_rebalance_cost(portfolio_weights, last_weights,
                                                trans_cost),
     lev_cost |-> calculate_leverage_costs(annual_kd, portfolio_weights)]

(***************************************************************************)
(* port_balance_calc.  date_filtered_returns is the sequence of the        *)
(* period's rows, each the growth factors of the held assets.  The result  *)
(* is the pair (balance_over_time, final_portfolio), or None (raised =     *)
(* TRUE) when the try block raised and the exception was only logged.  The *)
(* local values a property speaks of are returned with it.                 *)
(***************************************************************************)
\* np.exp(np.log(1 + returns).cumsum()), row k
RECURSIVE cumulative_growth(_, _, _)
cumulative_growth(date_filtered_returns, a, k) ==
    IF k = 0 THEN ROne
    ELSE RMul(cumulative_growth(date_filtered_returns, a, k - 1),
              date_filtered_returns[k][a])

\* (initial_portfolio * np.exp(cumulative_log_returns)).round(2)
position_NAV(portfolio_weights, balance, date_filtered_returns) ==
    [k \in 1..Len(date_filtered_returns) |->
        [a \in DOMAIN portfolio_weights |->
            RoundHalfEven(RMul(RMul(portfolio_weights[a].q, RInt(balance)),
                               cumulative_growth(date_filtered_returns, a, k)))]]

\* position_NAV.sum(axis=1)
row_sums(NAV) == [k \in 1..Len(NAV) |-> ISum(NAV[k], DOMAIN NAV[k])]

\* one more row of balance * np.exp(np.log(1 + pct_change() - kd).cumsum()):
\* a row whose 1 + pct_change - kd is negative has a nan logarithm, which
\* cumsum leaves nan and skips
next_row(done, net) ==
    IF net.num < 0
    THEN [product |-> done.product, rows |-> Append(done.rows, NaN)]
    ELSE [product |-> RoundHalfEven(RMul(RInt(done.product), net)),
          rows |-> Append(done.rows,
                          Fin(RoundHalfEven(RMul(RInt(done.product), net))))]

\* rows 1..k; row 1 has no pct_change and is nan
RECURSIVE leverage_adjusted(_, _, _, _)
leverage_adjusted(series, balance, kd, k) ==
    IF k = 0 THEN [product |-> balance, rows |-> <<>>]
    ELSE IF k = 1 THEN [product |-> balance, rows |-> <<NaN>>]
    ELSE next_row(leverage_adjusted(series, balance, kd, k - 1),
                  RSub(Rat(series[k], series[k - 1]), kd))

\* mutant: the adjustment does not look at kd
leverage_unless_ruined(guard, balance, kd) ==
    IF guard.result
    THEN leverage_adjusted(guard.series, balance, kd, Len(guard.series)).rows
    ELSE [k \in 1..Len(guard.series) |-> Fin(guard.series[k])]

\* lines 60-63
apply_leverage(guard, balance, kd) ==
    IF kd.num > 0 /\ guard.result
    THEN leverage_adjusted(guard.series, balance, kd, Len(guard.series)).rows
    ELSE [k \in 1..Len(guard.series) |-> Fin(guard.series[k])]

\* position_NAV.iloc[-1] / final_balance, one asset
final_weight(nav, final_balance) ==
    IF final_balance.kind # "fin" THEN WNaN
    ELSE IF final_balance.val # 0 THEN W(nav, final_balance.val)
    ELSE IF nav > 0 THEN WInf
    ELSE IF nav < 0 THEN WNegInf
    ELSE WNaN

None == [raised |-> TRUE, balance_over_time |-> <<>>, final_portfolio |-> EmptySeries,
         nav |-> <<>>, neg_check |-> TRUE, leveraged |-> FALSE]

\* lines 66-69 and 78
simulated(NAV, sums, guard, kd, balance_over_time) ==
    IF Len(balance_over_time) = 0
    THEN None   \* balance_over_time.iloc[-1]: IndexError, logged
    ELSE [raised |-> FALSE,
          balance_over_time |-> balance_over_time,
          final_portfolio |->
              [a \in DOMAIN NAV[Len(NAV)] |->
                  final_weight(NAV[Len(NAV)][a],
                               balance_over_time[Len(balance_over_time)])],
          nav |-> sums, neg_check |-> guard.result,
          leveraged |-> kd.num > 0 /\ guard.result]

\* lines 57-63
guarded(NAV, sums, guard, balance, kd) ==
    simulated(NAV, sums, guard, kd, apply_leverage(guard, balance, kd))

\* lines 54-57
summed(NAV, sums, balance, kd) ==
    guarded(NAV, sums, check_negative_balance(sums), balance, kd)

\* mutant: the hold starts from the second date and leaves no weights
hold_from_second_date(portfolio_weights, balance, date_filtered_returns) ==
    [raised |-> FALSE,
     balance_over_time |-> [k \in 1..(Len(date_filtered_returns) - 1) |-> Fin(balance)],
     final_portfolio |-> [a \in DOMAIN portfolio_weights |-> W(0, 1)],
     nav |-> <<>>, neg_check |-> TRUE, leveraged |-> FALSE]

\* lines 74-76
hold(portfolio_weights, balance, date_filtered_returns) ==
    [raised |-> FALSE,
     balance_over_time |-> [k \in 1..Len(date_filtered_returns) |-> Fin(balance)],
     final_portfolio |-> [a \in DOMAIN portfolio_weights |-> W(0, 1)],
     nav |-> <<>>, neg_check |-> TRUE, leveraged |-> FALSE]

normal(NAV, balance, kd) == summed(NAV, row_sums(NAV), balance, kd)

port_balance_calc(portfolio_weights, balance, date_filtered_returns, kd) ==
    IF Cardinality(DOMAIN portfolio_weights)
         # Cardinality({a \in DOMAIN portfolio_weights :
                           portfolio_weights[a].kind = "nan"})
    THEN normal(position_NAV(portfolio_weights, balance, date_filtered_returns),
                balance, kd)
    ELSE hold(portfolio_weights, balance, date_filtered_returns)

(***************************************************************************)
(* Inputs of get_balance.  Dates are day numbers.  A column of portfolios  *)
(* is a weight per asset, nan for an asset that is not held; the rows of   *)
(* sim_price_data are given by the growth of each price from one date to   *)
(* the next, and price_index is the set of dates sim_price_data has a row  *)
(* for.  The columns and the price moves are read period by period.        *)
(***************************************************************************)
Portfolios ==
    { [A |-> W(1, 1),  B |-> WNaN],
      [A |-> W(0, 1),  B |-> W(1, 1)],
      [A |-> W(2, 1),  B |-> W(-1, 1)],
      [A |-> W(1, 2),  B |-> W(1, 2)],
      [A |-> WNaN,     B |-> WNaN] }

PriceMoves ==
    { [A |-> Rat(11, 10), B |-> ROne],
      [A |-> Rat(1, 2),   B |-> ROne],
      [A |-> ROne,        B |-> Rat(11, 10)] }

\* days from one rebalance date to the next, and from the last one to end_date
DayGaps == {1, 2}
FinalGaps == {0, 1}
StartingBalances == {1000}
TransCosts == {RZero, Rat(1, 100), Rat(1, 2)}
AnnualKds == {RZero, RInt(36)}

VARIABLES
    starting_balance,    \* argument, in cents
    rebalance_dates,     \* argument
    end_date,            \* argument
    trans_cost,          \* argument
    annual_kd,           \* argument
    price_index,         \* sim_price_data.index
    all_dates_balance,   \* the result: <<[key, balance_df]>> in insertion order
    balance,
    returns_start_date,
    last_weights,
    reb_n,               \* the loop index
    pc,                  \* "loop", "done" (returned) or "raised" (left by an exception)
    logged,              \* number of logging.exception calls
    periods              \* per finished iteration, the values of its locals

vars == <<starting_balance, rebalance_dates, end_date, trans_cost, annual_kd,
          price_index, all_dates_balance, balance, returns_start_date,
          last_weights, reb_n, pc, logged, periods>>

args == <<starting_balance, rebalance_dates, end_date, trans_cost, annual_kd,
          price_index>>

n_rebalances == Len(rebalance_dates)

\* strictly increasing date sequences of length n starting at day 0
RECURSIVE DateSeqs(_)
DateSeqs(n) ==
    IF n = 1 THEN {<<0>>}
    ELSE {Append(ds, ds[Len(ds)] + g) : ds \in DateSeqs(n - 1), g \in DayGaps}

\* get_balance, lines 86-104
Start(covered) ==
    /\ starting_balance \in StartingBalances
    /\ rebalance_dates \in UNION {DateSeqs(n) : n \in 1..MaxRebalances}
    /\ end_date \in {rebalance_dates[Len(rebalance_dates)] + g : g \in FinalGaps}
    /\ trans_cost \in TransCosts
    /\ annual_kd \in AnnualKds
    /\ price_index \in IF covered THEN {0..end_date} ELSE {0..d : d \in 0..end_date}
    /\ all_dates_balance = <<>>
    /\ balance = Fin(starting_balance)
    /\ returns_start_date = rebalance_dates[1]
    /\ last_weights = [a \in Assets |-> W(0, 1)]
    /\ reb_n = 0
    /\ pc = "loop"
    /\ logged = 0
    /\ periods = <<>>

\* sim_price_data covers the whole date range
Init == Start(TRUE)

\* sim_price_data may stop before end_date
InitUncovered == Start(FALSE)

\* mutant: every period runs to end_date
date_to_end(n) == end_date

\* lines 110-116
date_to(n) ==
    IF n + 1 < n_rebalances THEN rebalance_dates[n + 2] ELSE end_date

\* lines 118-119
empty_final_period ==
    reb_n + 1 >= n_rebalances /\ returns_start_date = date_to(reb_n)

\* line 126: the rows of the slice, pct_change, dropna.  With columns the
\* first row is all nan and dropped; with no column dropna drops no row.
date_filtered_returns(portfolio_weights, rows, moves) ==
    IF DOMAIN portfolio_weights = {}
    THEN [k \in 1..Cardinality(rows) |-> EmptySeries]
    ELSE [k \in 1..Len(moves) |-> [a \in DOMAIN portfolio_weights |-> moves[k][a]]]

\* mutant: the first value of the period is carried on
first_balance(balance_df) == balance_df[1]

\* line 140
final_balance(balance_df) == balance_df[Len(balance_df)]

\* line 141
record_balance(result, key, balance_df) ==
    Append(result, [key |-> key, balance_df |-> balance_df])

\* one iteration of the loop, lines 105-144
Iterate ==
    /\ pc = "loop"
    /\ reb_n < n_rebalances
    /\ ~empty_final_period
    /\ \E column \in Portfolios :
        \E portfolio_weights \in {nonzero(dropna(column))} :
        \E rows \in {{d \in price_index :
                         returns_start_date <= d /\ d <= date_to(reb_n)}} :
        \E moves \in [1..(IF rows = {} THEN 0 ELSE Cardinality(rows) - 1)
                        -> PriceMoves] :
        \E costs \in {get_costs(trans_cost, portfolio_weights, last_weights,
                                 annual_kd)} :
        \E net_balance \in {get_net_balance(balance, costs.reb_cost)} :
        \E out \in {port_balance_calc(
                        portfolio_weights, net_balance.val,
                        date_filtered_returns(portfolio_weights, rows, moves),
                        costs.lev_cost)} :
                IF out.raised
                THEN \* line 136: None cannot be unpacked, TypeError
                     /\ pc' = "raised"
                     /\ logged' = logged + 1
                     /\ UNCHANGED <<args, all_dates_balance, balance,
                                    returns_start_date, last_weights, reb_n, periods>>
                ELSE IF Len(out.balance_over_time) = 0
                THEN \* line 140: balance_df.iloc[-1], IndexError
                     /\ pc' = "raised"
                     /\ last_weights' = out.final_portfolio
                     /\ UNCHANGED <<args, all_dates_balance, balance,
                                    returns_start_date, reb_n, logged, periods>>
                ELSE /\ last_weights' = out.final_portfolio
                     /\ balance' = final_balance(out.balance_over_time)
                     /\ all_dates_balance' =
                            record_balance(all_dates_balance, reb_n,
                                           out.balance_over_time)
                     /\ returns_start_date' = date_to(reb_n)
                     /\ reb_n' = reb_n + 1
                     /\ periods' = Append(periods,
                            [column |-> column,
                             portfolio_weights |-> portfolio_weights,
                             start |-> returns_start_date,
                             date_to |-> date_to(reb_n),
                             reb_cost |-> costs.reb_cost,
                             lev_cost |-> costs.lev_cost,
                             net_balance |-> net_balance,
                             nav |-> out.nav,
                             neg_check |-> out.neg_check,
                             leveraged |-> out.leveraged,
                             final_portfolio |-> out.final_portfolio])
                     /\ UNCHANGED <<args, pc, logged>>

\* lines 118-119: the final period is empty, break
Break ==
    /\ pc = "loop"
    /\ reb_n < n_rebalances
    /\ empty_final_period
    /\ pc' = "done"
    /\ UNCHANGED <<args, all_dates_balance, balance, returns_start_date,
                   last_weights, reb_n, logged, periods>>

\* line 146: the loop is exhausted
Return ==
    /\ pc = "loop"
    /\ reb_n = n_rebalances
    /\ pc' = "done"
    /\ UNCHANGED <<args, all_dates_balance, balance, returns_start_date,
                   last_weights, reb_n, logged, periods>>

Next == Iterate \/ Break \/ Return

Spec == Init /\ [][Next]_vars

SpecUncovered == InitUncovered /\ [][Next]_vars

(***************************************************************************)
(* Properties.  Period i (1-based here, key i - 1 in the result) has its   *)
(* trajectory in all_dates_balance[i] and its locals in periods[i].        *)
(***************************************************************************)
Trajectory(i) == all_dates_balance[i].balance_df

Last(seq) == seq[Len(seq)]

ZeroWeights == [a \in Assets |-> W(0, 1)]

\* what period i started from: the state the previous iteration left
BalanceBefore(i) ==
    IF i = 1 THEN Fin(starting_balance) ELSE Last(Trajectory(i - 1))

WeightsBefore(i) ==
    IF i = 1 THEN ZeroWeights ELSE periods[i - 1].final_portfolio

Ruined(i) == \E k \in 1..Len(periods[i].nav) : periods[i].nav[k] <= 0

AllUndefined(column) == \A a \in Assets : column[a].kind = "nan"

\* C1: ruin is permanent.  Once a NAV row-sum of a period is <= 0, that
\* value and every later value of the period's trajectory are exactly 0,
\* and so is every value of every later period's trajectory.
C1_RuinIsPermanent ==
    \A i \in 1..Len(periods) :
        \A k \in 1..Len(periods[i].nav) :
            periods[i].nav[k] <= 0 =>
                /\ \A m \in k..Len(Trajectory(i)) : Trajectory(i)[m] = Fin(0)
                /\ \A j \in (i + 1)..Len(periods) :
                       \A m \in 1..Len(Trajectory(j)) : Trajectory(j)[m] = Fin(0)

\* a period whose NAV row-sum falls to <= 0 and is positive again on a later
\* date, followed by a period that holds assets
C1_Witness ==
    /\ Len(periods) = 2
    /\ Len(periods[1].nav) = 2
    /\ periods[1].nav[1] <= 0
    /\ periods[1].nav[2] > 0
    /\ periods[2].portfolio_weights # EmptySeries

\* C2: period chaining.  The state starts as (starting_balance, zero
\* weights, first rebalance date); every period is simulated from
\* get_net_balance(last value of the previous trajectory, rebalance cost of
\* its filtered target weights against the previous ending weights); after
\* it the state is (last value of its trajectory, its ending weights, its end
\* date).  Example (C2_Example): 550.00 with ending weights {A: 1}, target
\* {A: 0, B: 1}, transaction cost 1%: reb_cost 0.02, net balance 539.00.
C2_Example ==
    /\ calculate_rebalance_cost([a \in {"B"} |-> W(1, 1)], [a \in {"A"} |-> W(1, 1)],
                                Rat(1, 100)) = Cost(Rat(2, 100))
    /\ get_net_balance(Fin(55000), Cost(Rat(2, 100))) = Fin(53900)

C2_PeriodChaining ==
    /\ reb_n = 0 =>
        /\ balance = Fin(starting_balance)
        /\ last_weights = ZeroWeights
        /\ returns_start_date = rebalance_dates[1]
        /\ C2_Example
    /\ \A i \in 1..Len(periods) :
        /\ periods[i].portfolio_weights = nonzero(dropna(periods[i].column))
        /\ periods[i].net_balance =
               get_net_balance(BalanceBefore(i),
                               get_costs(trans_cost, periods[i].portfolio_weights,
                                         WeightsBefore(i), annual_kd).reb_cost)
        /\ periods[i].start =
               IF i = 1 THEN rebalance_dates[1] ELSE periods[i - 1].date_to
    /\ Len(periods) > 0 =>
        /\ balance = Last(Trajectory(Len(periods)))
        /\ last_weights = periods[Len(periods)].final_portfolio
        /\ returns_start_date = periods[Len(periods)].date_to

\* the example's rebalance at 1% cost, reached in a run: period 1 holds only
\* A and ends at 5.44, period 2 has the target {A: 0, B: 1}: turnover 2,
\* reb_cost 0.02, net balance round(5.44 * 0.98, 2) = 5.33
C2_Witness ==
    /\ Len(periods) = 2
    /\ trans_cost = Rat(1, 100)
    /\ Last(Trajectory(1)) = Fin(544)
    /\ periods[1].final_portfolio = [a \in {"A"} |-> W(1, 1)]
    /\ periods[2].column = [A |-> W(0, 1), B |-> W(1, 1)]
    /\ periods[2].reb_cost = Cost(Rat(2, 100))
    /\ periods[2].net_balance = Fin(533)
    /\ balance = Last(Trajectory(2))

\* the rebalance cost of target weights against an all-zero portfolio
CostFromZero(weights) ==
    IF trans_cost.num <= 0 THEN Cost(RZero)
    ELSE Cost(RoundDecimals(
                RMul(trans_cost,
                     RSum([a \in DOMAIN weights |-> RAbs(weights[a].q)],
                          DOMAIN weights)),
                RebCostDecimals))

\* C3: zero-weight no-op.  A period whose weight vector is entirely
\* undefined has a trajectory constant at its net-of-cost starting balance
\* for every date of its range, all-zero ending weights, and the next
\* period's rebalance cost is the cost against a zero portfolio.
C3_ZeroWeightNoOp ==
    \A i \in 1..Len(periods) :
        AllUndefined(periods[i].column) =>
            /\ Trajectory(i) =
                   [k \in 1..(periods[i].date_to - periods[i].start + 1) |->
                       periods[i].net_balance]
            /\ \A a \in Assets :
                   a \in DOMAIN periods[i].final_portfolio =>
                       periods[i].final_portfolio[a] = W(0, 1)
            /\ i < Len(periods) =>
                   periods[i + 1].reb_cost =
                       CostFromZero(periods[i + 1].portfolio_weights)

\* an undefined period of three dates, and a next period that holds assets
\* and pays a rebalance cost
C3_Witness ==
    /\ Len(periods) = 2
    /\ AllUndefined(periods[1].column)
    /\ Len(Trajectory(1)) = 3
    /\ periods[1].net_balance.val > 0
    /\ periods[2].portfolio_weights # EmptySeries
    /\ periods[2].reb_cost.q.num > 0

\* a weight of a series, with a missing or nan entry counted as 0
WeightOr0(series, a) ==
    IF a \in DOMAIN series /\ series[a].kind # "nan" THEN series[a] ELSE W(0, 1)

Infinite(series) ==
    \E a \in DOMAIN series : series[a].kind \in {"inf", "-inf"}

\* sum of |current - previous| over all assets
Turnover(current, previous) ==
    RSum([a \in Assets |->
            RAbs(RSub(WeightOr0(current, a).q, WeightOr0(previous, a).q))],
         Assets)

\* a cost fraction in millionths, when it is a whole number of them
Millionths(x) == x.num * (Pow10(RebCostDecimals) \div x.den)

IsMillionths(x) == Pow10(RebCostDecimals) % x.den = 0

\* cost_rate * sum(|delta w|) of period i, exactly
ExactCost(i) ==
    RMul(trans_cost, Turnover(periods[i].portfolio_weights, WeightsBefore(i)))

\* cost is a whole number of millionths >= 0, at most the exact cost, which
\* is floor[1] millionths and a remainder
AtMost(cost, floor) ==
    /\ cost.kind = "fin"
    /\ cost.q.num >= 0
    /\ IsMillionths(cost.q)
    /\ Millionths(cost.q) <= floor[1]

\* cost is the whole number of millionths >= 0 nearest to the exact cost,
\* which is floor[1] millionths and floor[2] / den of one
Nearest(cost, floor, den) ==
    /\ cost.kind = "fin"
    /\ cost.q.num >= 0
    /\ IsMillionths(cost.q)
    /\ \/ Millionths(cost.q) = floor[1] /\ 2 * floor[2] <= den
       \/ Millionths(cost.q) = floor[1] + 1 /\ 2 * floor[2] >= den

RoundedUp(cost, floor) == Millionths(cost.q) = floor[1] + 1

InMillionths(exact) == ScaledFloor(exact, RebCostDecimals)

\* C4 as stated: the rebalance cost is 0 when cost_rate <= 0, and otherwise
\* the rounded cost is >= 0 and at most cost_rate * sum(|delta w|).
C4_AtMostExactCost ==
    \A i \in 1..Len(periods) :
        IF trans_cost.num <= 0 THEN periods[i].reb_cost = Cost(RZero)
        ELSE ~Infinite(WeightsBefore(i)) =>
                AtMost(periods[i].reb_cost, InMillionths(ExactCost(i)))

\* C4 amended: the rebalance cost is 0 when cost_rate <= 0; otherwise it is
\* cost_rate * sum over the union of the assets of |current - previous|
\* (missing or nan entries counted as 0) rounded to 6 decimals: a whole
\* number of millionths >= 0 within half a millionth of the exact product,
\* so it may exceed it by up to half a millionth; an infinite previous
\* weight makes it infinite.
C4_RebalanceCostRounded ==
    \A i \in 1..Len(periods) :
        IF trans_cost.num <= 0 THEN periods[i].reb_cost = Cost(RZero)
        ELSE IF Infinite(WeightsBefore(i)) THEN periods[i].reb_cost = CostInf
        ELSE Nearest(periods[i].reb_cost, InMillionths(ExactCost(i)),
                     ExactCost(i).den)

\* a cost that was rounded up, against drifted weights and an asset that only
\* the previous portfolio holds
C4_Witness ==
    /\ Len(periods) = 2
    /\ trans_cost.num > 0
    /\ ~Infinite(WeightsBefore(2))
    /\ DOMAIN periods[2].portfolio_weights # DOMAIN WeightsBefore(2)
    /\ RoundedUp(periods[2].reb_cost, InMillionths(ExactCost(2)))

\* C5: leverage_cost is 0 when annual_rate <= 0 or no weight is negative,
\* and otherwise the strictly positive (annual_rate / days_in_year) * (sum of
\* the absolute values of the negative weights); positive weights never
\* contribute.
C5_LeverageCost ==
    \A i \in 1..Len(periods) :
        LET weights == periods[i].portfolio_weights
            negative == {a \in DOMAIN weights : weights[a].q.num < 0}
            debt == RSum([a \in negative |-> RAbs(weights[a].q)], negative)
            cost == periods[i].lev_cost
        IN  IF annual_kd.num <= 0 \/ negative = {}
            THEN cost = RZero
            ELSE /\ cost.num > 0
                 /\ cost.num * DaysInYear * annual_kd.den * debt.den
                        = annual_kd.num * debt.num * cost.den

\* a positive leverage cost for a portfolio with a short and a long position
C5_Witness ==
    \E i \in 1..Len(periods) :
        /\ periods[i].lev_cost.num > 0
        /\ \E a \in DOMAIN periods[i].portfolio_weights :
               periods[i].portfolio_weights[a].q.num > 0
        /\ \E a \in DOMAIN periods[i].portfolio_weights :
               periods[i].portfolio_weights[a].q.num < 0

\* C6: shape of the result.  Keys 0, 1, ... in increasing order, one per
\* simulated period; period i runs from rebalance date i to rebalance date
\* i + 1, the last one to end_date; when get_balance returns, every key
\* 0..n-1 is present, except that an empty final period (last rebalance date
\* = end_date) stops the loop with keys 0..n-2 present.  The early stop is
\* never taken for another period.
C6_ResultShape ==
    /\ Len(all_dates_balance) = Len(periods)
    /\ \A k \in 1..Len(all_dates_balance) : all_dates_balance[k].key = k - 1
    /\ \A i \in 1..Len(periods) :
        /\ periods[i].start = rebalance_dates[i]
        /\ periods[i].date_to =
               IF i < n_rebalances THEN rebalance_dates[i + 1] ELSE end_date
    /\ pc # "raised"
    /\ pc = "done" =>
        IF rebalance_dates[n_rebalances] = end_date
        THEN Len(all_dates_balance) = n_rebalances - 1
        ELSE Len(all_dates_balance) = n_rebalances

\* the early stop after a recorded period
C6_Witness ==
    /\ pc = "done"
    /\ n_rebalances = 2
    /\ rebalance_dates[2] = end_date
    /\ Len(all_dates_balance) = 1

\* the NAV row-sums of period i after the depletion guard
Cleaned(i) ==
    [k \in 1..Len(periods[i].nav) |->
        IF \E j \in 1..k : periods[i].nav[j] <= 0 THEN Fin(0)
        ELSE Fin(periods[i].nav[k])]

Simulated(i) == periods[i].portfolio_weights # EmptySeries

\* C7 as stated: with transaction_cost = 0 and annual_cost_of_debt = 0 the
\* ending balance of a period equals the NAV row-sum of its last date.
C7_EndsAtLastRowSum ==
    \A i \in 1..Len(periods) :
        (Simulated(i) /\ trans_cost.num = 0 /\ annual_kd.num = 0) =>
            Last(Trajectory(i)) = Fin(Last(periods[i].nav))

\* C7 amended: the leverage adjustment is applied iff the daily leverage
\* cost is > 0 and no NAV row-sum of the period is <= 0; otherwise the
\* trajectory is exactly the guard-cleaned NAV row-sum, so with both costs 0
\* the ending balance of a period is the guard-cleaned row-sum of its last
\* date: the NAV row-sum when the period has no row-sum <= 0, and 0 when
\* it has one.
C7_LeverageGating ==
    \A i \in 1..Len(periods) :
        Simulated(i) =>
            /\ periods[i].neg_check = ~Ruined(i)
            /\ periods[i].leveraged = (periods[i].lev_cost.num > 0 /\ ~Ruined(i))
            /\ periods[i].leveraged => Trajectory(i)[1] = NaN
            /\ ~periods[i].leveraged => Trajectory(i) = Cleaned(i)
            /\ (trans_cost.num = 0 /\ annual_kd.num = 0) =>
                   Last(Trajectory(i)) =
                       IF Ruined(i) THEN Fin(0) ELSE Fin(Last(periods[i].nav))

\* a ruined period with a positive leverage cost: the adjustment is skipped
C7_Witness ==
    \E i \in 1..Len(periods) :
        /\ Simulated(i)
        /\ periods[i].lev_cost.num > 0
        /\ Ruined(i)
        /\ Last(periods[i].nav) > 0
        /\ Trajectory(i) = Cleaned(i)

\* C8: when port_balance_calc catches an exception on inconsistent input,
\* it is only logged and get_balance goes on with the remaining periods: it
\* is not left by an exception.
C8_ProceedsAfterLoggedFailure ==
    logged > 0 => pc # "raised"

\* C9: every value of every recorded trajectory is a defined number >= 0.
C9_ValuesDefined ==
    \A i \in 1..Len(all_dates_balance) :
        \A k \in 1..Len(Trajectory(i)) :
            Trajectory(i)[k].kind = "fin" /\ Trajectory(i)[k].val >= 0

\* C10: the net-of-cost balance of every period is between 0 and the
\* balance the period started from.
C10_NetBalanceBounded ==
    \A i \in 1..Len(periods) :
        BalanceBefore(i).kind = "fin" =>
            /\ periods[i].net_balance.kind = "fin"
            /\ 0 <= periods[i].net_balance.val
            /\ periods[i].net_balance.val <= BalanceBefore(i).val

=============================================================================
